---- MODULE Spec2Model ----
(***************************************************************************)
(* autosmp hotplug controller (arch/arm/kernel/autosmp.c as carried in     *)
(* drivers/leds/ledtrig-thermal.c): the periodic decision tick             *)
(* asmp_work_fn, the early-suspend / late-resume handlers, the "enabled"   *)
(* module parameter handler set_enabled and the sysfs store_one writers,   *)
(* running concurrently over the cpu online mask and one delayed work.     *)
(***************************************************************************)
EXTENDS Integers, Sequences, FiniteSets, TLC

\* CONFIG_NR_CPUS / nr_cpu_ids: the size of the pool (a build option > 2).
NR_CPUS == 3

\* cycle is an unsigned counter that only ever meets cycle_up / cycle_down in
\* a >= test; the model stops counting at MaxCycle, which is at least every
\* value those two parameters take here.
MaxCycle == 5

CPUS == 0 .. (NR_CPUS - 1)

EINVAL == 22

Min(a, b) == IF a < b THEN a ELSE b

-----------------------------------------------------------------------------
(* Text of a sysfs / module-parameter write, one character per element.    *)

DigitChars == <<"0", "1", "2", "3", "4", "5", "6", "7", "8", "9">>

isdigit(c) == \E i \in 1 .. 10 : DigitChars[i] = c

DigitVal(c) == (CHOOSE i \in 1 .. 10 : DigitChars[i] = c) - 1

isspace(c) == c \in {" ", "\n", "\t"}

RECURSIVE skip_spaces(_)
skip_spaces(s) ==
    IF s # <<>> /\ isspace(Head(s)) THEN skip_spaces(Tail(s)) ELSE s

RECURSIVE simple_strtoul(_, _)
simple_strtoul(s, acc) ==
    IF s # <<>> /\ isdigit(Head(s))
    THEN simple_strtoul(Tail(s), acc * 10 + DigitVal(Head(s)))
    ELSE acc

\* sscanf(buf, "%u", &input): white space is skipped, then a run of decimal
\* digits is converted; the result is the number of conversions made.  The
\* texts written here are far too short for the conversion to wrap.
sscanf_u(buf) ==
    LET s == skip_spaces(buf) IN
    IF s # <<>> /\ isdigit(Head(s))
    THEN [ret |-> 1, input |-> simple_strtoul(s, 0)]
    ELSE [ret |-> 0, input |-> 0]

\* param_set_bool -> strtobool: only the first character is looked at.
param_set_bool(val, old) ==
    IF val # <<>> /\ Head(val) \in {"y", "Y", "1"} THEN [ret |-> 0, value |-> TRUE]
    ELSE IF val # <<>> /\ Head(val) \in {"n", "N", "0"} THEN [ret |-> 0, value |-> FALSE]
    ELSE [ret |-> 0 - EINVAL, value |-> old]

\* The texts written to the enabled parameter.
BoolBufs ==
    { <<"1">>, <<"0">>, <<"Y">>, <<"n">>, <<"x">>, <<"2">>, <<>> }

\* The load samples get_rq_avg() returns: below, between and above the
\* default thresholds.
RqAvgs == {5, 10, 30}

\* The operating rates cpufreq_get() returns.
Rates == {10, 100}

-----------------------------------------------------------------------------
VARIABLES
    cpu_online_mask,   \* the set of online cpus
    asmp_param,        \* the tunables
    cycle,             \* ticks since the last hotplug action
    enabled,           \* the "enabled" module parameter
    asmp_work,         \* the delayed work: "idle", "timer", "queued", "cancel"
    t_pc,              \* asmp_work_fn: "idle", "sampled", "acted"
    rq_avg,            \* asmp_work_fn's local
    nr_cpu_online,     \* asmp_work_fn's local
    t_branch,          \* asmp_work_fn: the branch taken, "none", "up", "down"
    t_cpu,             \* asmp_work_fn's local cpu
    rate,              \* what cpufreq_get() returned to get_slowest_cpu
    pm_pc,             \* the early-suspend thread's position
    pm_cpu,            \* its loop variable
    pm_scroff,         \* whether the handler it is in took the hotplug loop
    en_pc,             \* set_enabled's position
    en_cpu,            \* its loop variable
    en_ret,            \* its return value
    en_old,            \* history: enabled was already set when an enable began
    en_inflight,       \* history: asmp_work_fn was running when a disable began
    run_up,            \* history: scale-up ticks in a row that did not act
    pm_snap,           \* history: the online set a suspend found ({}: none)
    t_running,         \* history: executions of asmp_work_fn in progress
    brightness,        \* thermal trigger: the smoothed brightness
    active,            \* thermal trigger: set between activate and deactivate
    th_delay,          \* thermal trigger: delay, in units of HZ
    check_temp_work,   \* the delayed work: "idle", "timer", "queued"
    led,               \* the brightness last sent to the LED
    c_pc,              \* check_temp: "idle", "read", "resched"
    temp,              \* check_temp's local
    ret,               \* check_temp's local
    tg_pc,             \* the LED core's thread: activate / deactivate
    tp_pc,             \* the power-state thread in the trigger's handlers
    th_stopped         \* history: polling was stopped and not scheduled again

vars ==
    << cpu_online_mask, asmp_param, cycle, enabled, asmp_work,
       t_pc, rq_avg, nr_cpu_online, t_branch, t_cpu, rate,
       pm_pc, pm_cpu, pm_scroff, en_pc, en_cpu, en_ret, en_old, en_inflight,
       run_up, pm_snap, t_running,
       brightness, active, th_delay, check_temp_work, led, c_pc, temp, ret,
       tg_pc, tp_pc, th_stopped >>

shared_vars == << cpu_online_mask, asmp_param, cycle, enabled, asmp_work >>
tick_vars == << t_pc, rq_avg, nr_cpu_online, t_branch, t_cpu, rate, run_up, t_running >>
pm_vars == << pm_pc, pm_cpu, pm_scroff, pm_snap >>
en_vars == << en_pc, en_cpu, en_ret, en_old, en_inflight >>
autosmp_vars == << shared_vars, tick_vars, pm_vars, en_vars >>
thermal_vars ==
    << brightness, active, th_delay, check_temp_work, led, c_pc, temp, ret,
       tg_pc, tp_pc, th_stopped >>

NoRate == [c \in CPUS |-> 0]

asmp_param_init ==
    [ delay |-> 100, scroff_single_core |-> TRUE, max_cpus |-> NR_CPUS,
      min_cpus |-> 1, load_limit_up |-> 25, load_limit_down |-> 5,
      cycle_up |-> 1, cycle_down |-> 5 ]

\* The thermal trigger's thresholds (Celsius), its polling delays (in units
\* of HZ) and the LED core's brightness range.
HIGH_TEMP == 62
LOW_TEMP == 52
DELAY_OFF == 5
DELAY_ON == 2
LED_OFF == 0
LED_FULL == 255

\* The state thermal_trig_init leaves: the trigger registered, not activated.
thermal_trig_init ==
    /\ brightness = 0 /\ active = FALSE /\ th_delay = DELAY_OFF
    /\ check_temp_work = "idle" /\ led = LED_OFF
    /\ c_pc = "idle" /\ temp = 0 /\ ret = 0
    /\ tg_pc = "unset" /\ tp_pc = "awake" /\ th_stopped = FALSE

\* The state asmp_init leaves: every cpu online, the work queued behind the
\* start delay, both control threads outside their handlers.
Init ==
    /\ cpu_online_mask = CPUS
    /\ asmp_param = asmp_param_init
    /\ cycle = 0
    /\ enabled = TRUE
    /\ asmp_work = "timer"
    /\ t_pc = "idle" /\ rq_avg = 0 /\ nr_cpu_online = 0
    /\ t_branch = "none" /\ t_cpu = 1 /\ rate = NoRate
    /\ pm_pc = "awake" /\ pm_cpu = 1 /\ pm_scroff = FALSE
    /\ en_pc = "idle" /\ en_cpu = 1 /\ en_ret = 0
    /\ en_old = FALSE /\ en_inflight = FALSE
    /\ run_up = 0 /\ pm_snap = {} /\ t_running = 0
    /\ thermal_trig_init

-----------------------------------------------------------------------------
(* The hotplug core and the workqueue.                                     *)

num_online_cpus(mask) == Cardinality(mask)

cpu_online(mask, cpu) == cpu \in mask

\* cpu_up that also brings up the cpu's sibling.
cpu_up_pair(mask, cpu) ==
    IF cpu \in CPUS /\ cpu \notin mask
    THEN mask \cup ({cpu, cpu + 1} \cap CPUS) ELSE mask

\* cpu_up: -EINVAL for a cpu that is not possible or is already online; a
\* valid request is taken to succeed.
cpu_up(mask, cpu) ==
    IF cpu \in CPUS /\ cpu \notin mask THEN mask \cup {cpu} ELSE mask

\* cpu_down: -EINVAL for a cpu that is not online; a valid request is taken
\* to succeed.
cpu_down(mask, cpu) ==
    IF cpu \in mask THEN mask \ {cpu} ELSE mask

\* cpumask_next_zero(n, mask): the first cpu above n that is not in mask,
\* nr_cpu_ids when there is none.
cpumask_next_zero(n, mask) ==
    LET free == {c \in CPUS : c > n /\ c \notin mask} IN
    IF free = {} THEN NR_CPUS
    ELSE CHOOSE c \in free : \A d \in free : c <= d

\* The loop's test with <= for <.
slower_or_equal(r, slow_rate) == slow_rate = -1 \/ r <= slow_rate

\* The test of get_slowest_cpu's loop body; slow_rate = -1 stands for the
\* ULONG_MAX it starts from, which every rate is below.
slower(r, slow_rate) == slow_rate = -1 \/ r < slow_rate

\* get_slowest_cpu's loop over the online cpus, in ascending order.
RECURSIVE slowest_from(_, _, _, _, _)
slowest_from(cpu, mask, r, slow_cpu, slow_rate) ==
    IF cpu >= NR_CPUS THEN slow_cpu
    ELSE IF cpu \in mask /\ cpu > 0 /\ slower(r[cpu], slow_rate)
         THEN slowest_from(cpu + 1, mask, r, cpu, r[cpu])
         ELSE slowest_from(cpu + 1, mask, r, slow_cpu, slow_rate)

\* get_slowest_cpu with slow_cpu starting from 0 instead of 1.
get_slowest_cpu_from0(mask, r) == slowest_from(0, mask, r, 0, -1)

\* get_slowest_cpu: cpu 1 when no cpu above 0 is online.
get_slowest_cpu(mask, r) == slowest_from(0, mask, r, 1, -1)

\* queue_delayed_work without its test of the PENDING bit.
queue_delayed_work_again(w, delay) ==
    IF delay = 0 THEN "queued" ELSE "timer"

\* queue_delayed_work: nothing when the work's PENDING bit is set (a timer is
\* armed, the work is on the worklist, or a canceller holds the bit).
queue_delayed_work(w, delay) ==
    IF w # "idle" THEN w
    ELSE IF delay = 0 THEN "queued" ELSE "timer"

\* A tick is pending: its timer is armed or it waits on the worklist.
work_pending(w) == w \in {"timer", "queued"}

\* The worker pool runs a given work one execution at a time ("ticks are
\* strictly sequential"): a work that is queued while its function is still
\* running waits for that execution to return.
worker_busy(pc) == pc # "idle"

-----------------------------------------------------------------------------
(* asmp_work_fn                                                            *)

\* The armed timer expires: delayed_work_timer_fn puts the work on the list.
timer_fn ==
    /\ asmp_work = "timer"
    /\ asmp_work' = "queued"
    /\ UNCHANGED << cpu_online_mask, asmp_param, cycle, enabled >>
    /\ UNCHANGED << tick_vars, pm_vars, en_vars >>
    /\ UNCHANGED thermal_vars

\* The worker takes the work off the list (clearing PENDING) and runs the
\* function up to its reads of the load and of the online count.
T_begin(avgs) ==
    /\ asmp_work = "queued"
    /\ ~worker_busy(t_pc)
    /\ asmp_work' = "idle"
    /\ t_pc' = "sampled"
    /\ cycle' = Min(cycle + 1, MaxCycle)
    /\ rq_avg' \in avgs
    /\ nr_cpu_online' = num_online_cpus(cpu_online_mask)
    /\ UNCHANGED << cpu_online_mask, asmp_param, enabled >>
    /\ t_running' = t_running + 1
    /\ UNCHANGED << t_branch, t_cpu, rate, run_up, pm_vars, en_vars >>
    /\ UNCHANGED thermal_vars

scale_up ==
    /\ nr_cpu_online < asmp_param.max_cpus
    /\ rq_avg >= asmp_param.load_limit_up

scale_down ==
    /\ nr_cpu_online > asmp_param.min_cpus
    /\ rq_avg <= asmp_param.load_limit_down

\* What cpufreq_get returned for the cpus get_slowest_cpu asked about.
rates_read(mask, r) == [c \in CPUS |-> IF c \in mask /\ c > 0 THEN r[c] ELSE 0]

\* The decision and the hotplug call it leads to.
T_act(rates) ==
    /\ t_pc = "sampled"
    /\ t_pc' = "acted"
    /\ IF scale_up
       THEN IF cycle >= asmp_param.cycle_up
            THEN LET cpu == cpumask_next_zero(0, cpu_online_mask) IN
                 /\ cpu_online_mask' = cpu_up(cpu_online_mask, cpu)
                 /\ cycle' = 0
                 /\ t_branch' = "up"
                 /\ t_cpu' = cpu
                 /\ rate' = rate
                 /\ run_up' = 0
            ELSE /\ run_up' = Min(run_up + 1, MaxCycle)
                 /\ UNCHANGED << cpu_online_mask, cycle, t_branch, t_cpu, rate >>
       ELSE IF scale_down
       THEN IF cycle >= asmp_param.cycle_down
            THEN \E r \in [CPUS -> rates] :
                 LET cpu == get_slowest_cpu(cpu_online_mask, r) IN
                 /\ cpu_online_mask' = cpu_down(cpu_online_mask, cpu)
                 /\ cycle' = 0
                 /\ t_branch' = "down"
                 /\ t_cpu' = cpu
                 /\ rate' = rates_read(cpu_online_mask, r)
                 /\ run_up' = 0
            ELSE /\ run_up' = 0
                 /\ UNCHANGED << cpu_online_mask, cycle, t_branch, t_cpu, rate >>
       ELSE /\ run_up' = 0
            /\ UNCHANGED << cpu_online_mask, cycle, t_branch, t_cpu, rate >>
    /\ pm_snap' = IF cpu_online_mask' # cpu_online_mask THEN {} ELSE pm_snap
    /\ UNCHANGED << asmp_param, enabled, asmp_work, rq_avg, nr_cpu_online, t_running >>
    /\ UNCHANGED << pm_pc, pm_cpu, pm_scroff, en_vars >>
    /\ UNCHANGED thermal_vars

\* The unconditional requeue that ends the function.
T_requeue ==
    /\ t_pc = "acted"
    /\ asmp_work' = queue_delayed_work(asmp_work, asmp_param.delay)
    /\ t_pc' = "idle" /\ rq_avg' = 0 /\ nr_cpu_online' = 0
    /\ t_branch' = "none" /\ t_cpu' = 1 /\ rate' = NoRate
    /\ t_running' = t_running - 1
    /\ UNCHANGED << cpu_online_mask, asmp_param, cycle, enabled >>
    /\ UNCHANGED << run_up, pm_vars, en_vars >>
    /\ UNCHANGED thermal_vars

-----------------------------------------------------------------------------
(* asmp_early_suspend and asmp_late_resume, called in turn by the one      *)
(* early-suspend thread.                                                   *)

\* Entry of asmp_early_suspend: the test of scroff_single_core.  With track,
\* the online set found is remembered for as long as nothing but this
\* suspend and the resume after it changes the set.
S_enter(track) ==
    /\ pm_pc = "awake"
    /\ pm_cpu' = 1
    /\ pm_scroff' = asmp_param.scroff_single_core
    /\ pm_pc' = IF asmp_param.scroff_single_core THEN "s_unplug" ELSE "s_cancel"
    /\ pm_snap' = IF track /\ asmp_param.scroff_single_core
                  THEN cpu_online_mask ELSE {}
    /\ UNCHANGED << shared_vars, tick_vars, en_vars >>
    /\ UNCHANGED thermal_vars

\* One turn of the unplug loop.
S_unplug ==
    /\ pm_pc = "s_unplug"
    /\ cpu_online_mask' =
          IF cpu_online(cpu_online_mask, pm_cpu)
          THEN cpu_down(cpu_online_mask, pm_cpu) ELSE cpu_online_mask
    /\ pm_cpu' = pm_cpu + 1
    /\ pm_pc' = IF pm_cpu + 1 < NR_CPUS THEN "s_unplug" ELSE "s_cancel"
    /\ UNCHANGED << asmp_param, cycle, enabled, asmp_work >>
    /\ UNCHANGED << pm_scroff, pm_snap, tick_vars, en_vars >>
    /\ UNCHANGED thermal_vars

\* if (enabled) cancel_delayed_work_sync: the canceller takes the PENDING bit
\* (deleting the timer or taking the work off the list) once no other
\* canceller holds it.
S_cancel ==
    /\ pm_pc = "s_cancel"
    /\ IF enabled
       THEN /\ asmp_work # "cancel"
            /\ asmp_work' = "cancel"
            /\ pm_pc' = "s_wait"
       ELSE /\ pm_pc' = "s_ret"
            /\ UNCHANGED asmp_work
    /\ UNCHANGED << cpu_online_mask, asmp_param, cycle, enabled >>
    /\ UNCHANGED << pm_cpu, pm_scroff, pm_snap, tick_vars, en_vars >>
    /\ UNCHANGED thermal_vars

\* cancel_delayed_work_sync waits for a running asmp_work_fn to return, then
\* releases the bit.
S_wait ==
    /\ pm_pc = "s_wait"
    /\ t_pc = "idle"
    /\ asmp_work' = "idle"
    /\ pm_pc' = "s_ret"
    /\ UNCHANGED << cpu_online_mask, asmp_param, cycle, enabled >>
    /\ UNCHANGED << pm_cpu, pm_scroff, pm_snap, tick_vars, en_vars >>
    /\ UNCHANGED thermal_vars

\* asmp_early_suspend returns.
S_return ==
    /\ pm_pc = "s_ret"
    /\ pm_pc' = "suspended"
    /\ pm_cpu' = 1 /\ pm_scroff' = FALSE
    /\ UNCHANGED << shared_vars, pm_snap, tick_vars, en_vars >>
    /\ UNCHANGED thermal_vars

\* Entry of asmp_late_resume: the test of scroff_single_core.
R_enter ==
    /\ pm_pc = "suspended"
    /\ pm_cpu' = 1
    /\ pm_scroff' = asmp_param.scroff_single_core
    /\ pm_pc' = IF asmp_param.scroff_single_core THEN "r_plug" ELSE "r_check"
    /\ pm_snap' = IF asmp_param.scroff_single_core THEN pm_snap ELSE {}
    /\ UNCHANGED << shared_vars, tick_vars, en_vars >>
    /\ UNCHANGED thermal_vars

\* The plug loop testing cpu_online where it should test !cpu_online.
R_plug_online ==
    /\ pm_pc = "r_plug"
    /\ cpu_online_mask' =
          IF cpu_online(cpu_online_mask, pm_cpu)
          THEN cpu_up(cpu_online_mask, pm_cpu) ELSE cpu_online_mask
    /\ pm_cpu' = pm_cpu + 1
    /\ pm_pc' = IF pm_cpu + 1 < NR_CPUS THEN "r_plug" ELSE "r_check"
    /\ UNCHANGED << asmp_param, cycle, enabled, asmp_work >>
    /\ UNCHANGED << pm_scroff, pm_snap, tick_vars, en_vars >>
    /\ UNCHANGED thermal_vars

\* One turn of the plug loop.
R_plug ==
    /\ pm_pc = "r_plug"
    /\ cpu_online_mask' =
          IF ~cpu_online(cpu_online_mask, pm_cpu)
          THEN cpu_up(cpu_online_mask, pm_cpu) ELSE cpu_online_mask
    /\ pm_cpu' = pm_cpu + 1
    /\ pm_pc' = IF pm_cpu + 1 < NR_CPUS THEN "r_plug" ELSE "r_check"
    /\ UNCHANGED << asmp_param, cycle, enabled, asmp_work >>
    /\ UNCHANGED << pm_scroff, pm_snap, tick_vars, en_vars >>
    /\ UNCHANGED thermal_vars

\* if (enabled)
R_check ==
    /\ pm_pc = "r_check"
    /\ pm_pc' = IF enabled THEN "r_queue" ELSE "r_ret"
    /\ UNCHANGED << shared_vars, pm_cpu, pm_scroff, pm_snap, tick_vars, en_vars >>
    /\ UNCHANGED thermal_vars

\* queue_delayed_work
R_queue ==
    /\ pm_pc = "r_queue"
    /\ asmp_work' = queue_delayed_work(asmp_work, asmp_param.delay)
    /\ pm_pc' = "r_ret"
    /\ UNCHANGED << cpu_online_mask, asmp_param, cycle, enabled >>
    /\ UNCHANGED << pm_cpu, pm_scroff, pm_snap, tick_vars, en_vars >>
    /\ UNCHANGED thermal_vars

\* asmp_late_resume returns.
R_return ==
    /\ pm_pc = "r_ret"
    /\ pm_pc' = "awake"
    /\ pm_cpu' = 1 /\ pm_scroff' = FALSE /\ pm_snap' = {}
    /\ UNCHANGED << shared_vars, tick_vars, en_vars >>
    /\ UNCHANGED thermal_vars

-----------------------------------------------------------------------------
(* set_enabled: a write to the enabled module parameter (the parameter     *)
(* lock admits one write at a time).                                       *)

\* param_set_bool and the test of enabled that follows it.
E_call(val) ==
    /\ en_pc = "idle"
    /\ LET r == param_set_bool(val, enabled) IN
       /\ en_ret' = r.ret
       /\ enabled' = r.value
       /\ en_pc' = IF r.value THEN "e_queue" ELSE "e_cancel"
       /\ en_old' = (r.value /\ enabled)
       /\ en_inflight' = (~r.value /\ t_pc # "idle")
    /\ en_cpu' = 1
    /\ UNCHANGED << cpu_online_mask, asmp_param, cycle, asmp_work >>
    /\ UNCHANGED << tick_vars, pm_vars >>
    /\ UNCHANGED thermal_vars

\* queue_delayed_work
E_queue ==
    /\ en_pc = "e_queue"
    /\ asmp_work' = queue_delayed_work(asmp_work, asmp_param.delay)
    /\ en_pc' = "e_ret"
    /\ UNCHANGED << cpu_online_mask, asmp_param, cycle, enabled >>
    /\ UNCHANGED << en_cpu, en_ret, en_old, en_inflight, tick_vars, pm_vars >>
    /\ UNCHANGED thermal_vars

\* cancel_delayed_work_sync takes the PENDING bit ...
E_cancel ==
    /\ en_pc = "e_cancel"
    /\ asmp_work # "cancel"
    /\ asmp_work' = "cancel"
    /\ en_pc' = "e_wait"
    /\ UNCHANGED << cpu_online_mask, asmp_param, cycle, enabled >>
    /\ UNCHANGED << en_cpu, en_ret, en_old, en_inflight, tick_vars, pm_vars >>
    /\ UNCHANGED thermal_vars

\* cancel_delayed_work where cancel_delayed_work_sync is: no wait.
E_wait_nosync ==
    /\ en_pc = "e_wait"
    /\ asmp_work' = "idle"
    /\ en_pc' = "e_plug"
    /\ UNCHANGED << cpu_online_mask, asmp_param, cycle, enabled >>
    /\ UNCHANGED << en_cpu, en_ret, en_old, en_inflight, tick_vars, pm_vars >>
    /\ UNCHANGED thermal_vars

\* ... and waits for a running asmp_work_fn to return.
E_wait ==
    /\ en_pc = "e_wait"
    /\ t_pc = "idle"
    /\ asmp_work' = "idle"
    /\ en_pc' = "e_plug"
    /\ UNCHANGED << cpu_online_mask, asmp_param, cycle, enabled >>
    /\ UNCHANGED << en_cpu, en_ret, en_old, en_inflight, tick_vars, pm_vars >>
    /\ UNCHANGED thermal_vars

\* One turn of the plug loop.
E_plug ==
    /\ en_pc = "e_plug"
    /\ cpu_online_mask' =
          IF ~cpu_online(cpu_online_mask, en_cpu)
          THEN cpu_up(cpu_online_mask, en_cpu) ELSE cpu_online_mask
    /\ en_cpu' = en_cpu + 1
    /\ en_pc' = IF en_cpu + 1 < NR_CPUS THEN "e_plug" ELSE "e_ret"
    /\ pm_snap' = IF cpu_online_mask' # cpu_online_mask THEN {} ELSE pm_snap
    /\ UNCHANGED << asmp_param, cycle, enabled, asmp_work >>
    /\ UNCHANGED << en_ret, en_old, en_inflight, tick_vars, pm_pc, pm_cpu, pm_scroff >>
    /\ UNCHANGED thermal_vars

\* set_enabled returns ret.
E_return ==
    /\ en_pc = "e_ret"
    /\ en_pc' = "idle"
    /\ en_cpu' = 1 /\ en_ret' = 0 /\ en_old' = FALSE /\ en_inflight' = FALSE
    /\ UNCHANGED << shared_vars, tick_vars, pm_vars >>
    /\ UNCHANGED thermal_vars

-----------------------------------------------------------------------------
(* store_one: a write to one attribute of the conf/ group.                 *)

Fields ==
    { "delay", "scroff_single_core", "max_cpus", "min_cpus",
      "load_limit_up", "load_limit_down", "cycle_up", "cycle_down" }

\* The assignment of the unsigned input to the field (a bool for
\* scroff_single_core).
store_value(object, input) ==
    IF object = "scroff_single_core" THEN input # 0 ELSE input

store_one(object, buf) ==
    /\ object \in Fields
    /\ LET r == sscanf_u(buf) IN
       IF r.ret # 1
       THEN UNCHANGED asmp_param
       ELSE asmp_param' = [asmp_param EXCEPT ![object] = store_value(object, r.input)]
    /\ UNCHANGED << cpu_online_mask, cycle, enabled, asmp_work >>
    /\ UNCHANGED << tick_vars, pm_vars, en_vars >>
    /\ UNCHANGED thermal_vars

-----------------------------------------------------------------------------
(* The thermal LED trigger: check_temp polls the sensor from the system    *)
(* workqueue; the LED core activates and deactivates the trigger; the      *)
(* power-state thread calls its early-suspend and late-resume handlers.    *)

\* The readings tsens_get_temp gives: below, at and between the thresholds,
\* above HIGH_TEMP and far above it (none so large that the product in the
\* interpolation wraps).
Temps == {40, 52, 53, 57, 61, 62, 64, 100, 100000}

\* The results of tsens_get_temp: 0, or an error.
TsensRets == {0, 0 - EINVAL}

abs(x) == IF x < 0 THEN 0 - x ELSE x

\* br: 0 up to LOW_TEMP, the line through (LOW_TEMP, 0) and
\* (HIGH_TEMP, LED_FULL) above it.
interpolate(t) ==
    IF t > LOW_TEMP
    THEN (LED_FULL * (t - LOW_TEMP)) \div (HIGH_TEMP - LOW_TEMP)
    ELSE 0

\* The step from brightness b towards br, by the size of the difference.
ramp(br, b) ==
    LET diff == abs(br - b) IN
    IF diff > 120 THEN br
    ELSE IF diff > 40 THEN (IF br > b THEN b + 10 ELSE b - 10)
    ELSE IF diff > 20 THEN (IF br > b THEN b + 5 ELSE b - 5)
    ELSE IF diff > 10 THEN (IF br > b THEN b + 2 ELSE b - 2)
    ELSE (IF br > b THEN b + 1 ELSE b - 1)

\* The clamp with its upper test left out.
clamp_below(b) == IF b < LED_OFF THEN LED_OFF ELSE b

\* The clamp to [LED_OFF, LED_FULL].
clamp(b) ==
    IF b < LED_OFF THEN LED_OFF
    ELSE IF b > LED_FULL THEN LED_FULL
    ELSE b

\* schedule_delayed_work: queue_delayed_work on the system workqueue.
schedule_delayed_work(w, d) == queue_delayed_work(w, d)

\* cancel_delayed_work: an armed timer is deleted; a work that already waits
\* on the worklist is taken off it or left there (the two forms the call has
\* had); a running check_temp is neither stopped nor waited for.
cancel_delayed_work(w) ==
    IF w = "timer" THEN {"idle"}
    ELSE IF w = "queued" THEN {"idle", "queued"}
    ELSE {w}

\* flush_scheduled_work returns once what waits on the worklist has run and
\* what was running has returned.
flushed == check_temp_work # "queued" /\ c_pc = "idle"

\* check_temp_work's timer expires.
check_temp_timer_fn ==
    /\ check_temp_work = "timer"
    /\ check_temp_work' = "queued"
    /\ UNCHANGED << brightness, active, th_delay, led, c_pc, temp, ret >>
    /\ UNCHANGED << tg_pc, tp_pc, th_stopped, autosmp_vars >>

\* The worker takes check_temp_work off the list and check_temp reads the
\* sensor.
C_read(temps) ==
    /\ check_temp_work = "queued"
    /\ ~worker_busy(c_pc)
    /\ check_temp_work' = "idle"
    /\ c_pc' = "read"
    /\ \E r \in TsensRets, t \in temps :
          /\ ret' = r
          /\ temp' = IF r = 0 THEN t ELSE 0
    /\ UNCHANGED << brightness, active, th_delay, led >>
    /\ UNCHANGED << tg_pc, tp_pc, th_stopped, autosmp_vars >>

\* The ramp, the clamp and led_trigger_event; none of them after a failed
\* read.
C_ramp ==
    /\ c_pc = "read"
    /\ c_pc' = "resched"
    /\ IF ret # 0
       THEN UNCHANGED << brightness, led >>
       ELSE /\ brightness' = clamp(ramp(interpolate(temp), brightness))
            /\ led' = brightness'
    /\ UNCHANGED << active, th_delay, check_temp_work, temp, ret >>
    /\ UNCHANGED << tg_pc, tp_pc, th_stopped, autosmp_vars >>

\* reschedule:
C_resched ==
    /\ c_pc = "resched"
    /\ th_delay' = IF brightness = LED_OFF THEN DELAY_OFF ELSE DELAY_ON
    /\ check_temp_work' = schedule_delayed_work(check_temp_work, th_delay')
    /\ c_pc' = "idle" /\ temp' = 0 /\ ret' = 0
    /\ UNCHANGED << brightness, active, led >>
    /\ UNCHANGED << tg_pc, tp_pc, th_stopped, autosmp_vars >>

\* thermal_trig_activate: delay = DELAY_OFF and schedule_delayed_work ...
A_schedule ==
    /\ tg_pc = "unset"
    /\ th_delay' = DELAY_OFF
    /\ check_temp_work' = schedule_delayed_work(check_temp_work, DELAY_OFF)
    /\ tg_pc' = "a_active"
    /\ th_stopped' = FALSE
    /\ UNCHANGED << brightness, active, led, c_pc, temp, ret, tp_pc, autosmp_vars >>

\* ... then active = 1.
A_active ==
    /\ tg_pc = "a_active"
    /\ active' = TRUE
    /\ tg_pc' = "set"
    /\ UNCHANGED << brightness, th_delay, check_temp_work, led, c_pc, temp, ret >>
    /\ UNCHANGED << tp_pc, th_stopped, autosmp_vars >>

\* thermal_trig_deactivate: cancel_delayed_work ...
D_cancel ==
    /\ tg_pc = "set"
    /\ check_temp_work' \in cancel_delayed_work(check_temp_work)
    /\ tg_pc' = "d_flush"
    /\ UNCHANGED << brightness, active, th_delay, led, c_pc, temp, ret >>
    /\ UNCHANGED << tp_pc, th_stopped, autosmp_vars >>

\* ... flush_scheduled_work ...
D_flush ==
    /\ tg_pc = "d_flush"
    /\ flushed
    /\ tg_pc' = "d_off"
    /\ UNCHANGED << brightness, active, th_delay, check_temp_work, led, c_pc, temp, ret >>
    /\ UNCHANGED << tp_pc, th_stopped, autosmp_vars >>

\* ... active = 0, led_set_brightness(LED_OFF), and the return.
D_off ==
    /\ tg_pc = "d_off"
    /\ active' = FALSE
    /\ led' = LED_OFF
    /\ tg_pc' = "unset"
    /\ th_stopped' = TRUE
    /\ UNCHANGED << brightness, th_delay, check_temp_work, c_pc, temp, ret >>
    /\ UNCHANGED << tp_pc, autosmp_vars >>

\* thermal_trig_early_suspend: nothing when not active, else
\* cancel_delayed_work ...
TS_cancel ==
    /\ tp_pc = "awake"
    /\ IF ~active
       THEN /\ tp_pc' = "suspended"
            /\ UNCHANGED check_temp_work
       ELSE /\ check_temp_work' \in cancel_delayed_work(check_temp_work)
            /\ tp_pc' = "ts_flush"
    /\ UNCHANGED << brightness, active, th_delay, led, c_pc, temp, ret >>
    /\ UNCHANGED << tg_pc, th_stopped, autosmp_vars >>

\* ... flush_scheduled_work ...
TS_flush ==
    /\ tp_pc = "ts_flush"
    /\ flushed
    /\ tp_pc' = "ts_led"
    /\ UNCHANGED << brightness, active, th_delay, check_temp_work, led, c_pc, temp, ret >>
    /\ UNCHANGED << tg_pc, th_stopped, autosmp_vars >>

\* ... the LED switched off when brightness is not 0, and the return.
TS_led ==
    /\ tp_pc = "ts_led"
    /\ led' = IF brightness # 0 THEN LED_OFF ELSE led
    /\ tp_pc' = "suspended"
    /\ th_stopped' = TRUE
    /\ UNCHANGED << brightness, active, th_delay, check_temp_work, c_pc, temp, ret >>
    /\ UNCHANGED << tg_pc, autosmp_vars >>

\* thermal_trig_late_resume: nothing when not active ...
TR_enter ==
    /\ tp_pc = "suspended"
    /\ tp_pc' = IF active THEN "tr_sched" ELSE "awake"
    /\ UNCHANGED << brightness, active, th_delay, check_temp_work, led, c_pc, temp, ret >>
    /\ UNCHANGED << tg_pc, th_stopped, autosmp_vars >>

\* ... else the delay by brightness and schedule_delayed_work.
TR_sched ==
    /\ tp_pc = "tr_sched"
    /\ th_delay' = IF brightness = LED_OFF THEN DELAY_OFF ELSE DELAY_ON
    /\ check_temp_work' = schedule_delayed_work(check_temp_work, th_delay')
    /\ tp_pc' = "awake"
    /\ th_stopped' = FALSE
    /\ UNCHANGED << brightness, active, led, c_pc, temp, ret >>
    /\ UNCHANGED << tg_pc, autosmp_vars >>

-----------------------------------------------------------------------------
(* The specifications.                                                     *)

\* The writes made while the lifecycle handlers run: the pool bounds below
\* and above their defaults, and the suspend policy.
PoolWrites ==
    { << "min_cpus", <<"0">> >>, << "max_cpus", <<"4">> >>,
      << "scroff_single_core", <<"0">> >>, << "scroff_single_core", <<"1">> >>,
      << "max_cpus", <<"x">> >> }

Tick(avgs, rates) == timer_fn \/ T_begin(avgs) \/ T_act(rates) \/ T_requeue

Suspend(track) == S_enter(track) \/ S_unplug \/ S_cancel \/ S_wait \/ S_return

Resume == R_enter \/ R_plug \/ R_check \/ R_queue \/ R_return

SetEnabled ==
    \/ \E val \in BoolBufs : E_call(val)
    \/ E_queue \/ E_cancel \/ E_wait \/ E_plug \/ E_return

\* Everything at once: the tick, the power-state thread, writes to enabled
\* and writes to the pool's attributes.
Next ==
    \/ Tick({5, 30}, {100})
    \/ Suspend(FALSE)
    \/ Resume
    \/ SetEnabled
    \/ \E w \in PoolWrites : store_one(w[1], w[2])

Spec == Init /\ [][Next]_vars

\* The writes made to the decision's attributes.
TickWrites ==
    { << "cycle_up", <<"2">> >>, << "cycle_up", <<"3">> >>,
      << "cycle_down", <<"1">> >>,
      << "max_cpus", <<"2">> >>, << "max_cpus", <<"4">> >>,
      << "min_cpus", <<"0">> >>, << "min_cpus", <<" ", "2">> >>,
      << "cycle_up", <<"-", "1">> >> }

\* The tick alone, with its attributes written under it.
NextTick ==
    \/ Tick(RqAvgs, Rates)
    \/ \E w \in TickWrites : store_one(w[1], w[2])

SpecTick == Init /\ [][NextTick]_vars

\* The tick is scheduled again whenever it is due.
SpecTickFair == SpecTick /\ WF_vars(Tick(RqAvgs, Rates))

\* No power-state handler is running; set_enabled is not running.
pm_outside == pm_pc \in {"awake", "suspended"}
en_outside == en_pc = "idle"

\* The control calls one at a time (a handler of the power-state thread and
\* a set_enabled never overlap), each against the running tick.
NextSerial ==
    \/ Tick({5, 30}, {100})
    \/ (en_outside /\ (Suspend(TRUE) \/ Resume))
    \/ (pm_outside /\ SetEnabled)
    \/ \E w \in PoolWrites : store_one(w[1], w[2])

SpecSerial == Init /\ [][NextSerial]_vars

check_temp(temps) == check_temp_timer_fn \/ C_read(temps) \/ C_ramp \/ C_resched

thermal_trig_activate == A_schedule \/ A_active

thermal_trig_deactivate == D_cancel \/ D_flush \/ D_off

thermal_trig_early_suspend == TS_cancel \/ TS_flush \/ TS_led

thermal_trig_late_resume == TR_enter \/ TR_sched

\* The thermal trigger: its poll, the LED core's thread and the power-state
\* thread.
NextThermal ==
    \/ check_temp(Temps)
    \/ thermal_trig_activate
    \/ thermal_trig_deactivate
    \/ thermal_trig_early_suspend
    \/ thermal_trig_late_resume

SpecThermal == Init /\ [][NextThermal]_vars

\* No call of the LED core is running; no handler of the power-state
\* thread is running.
tg_outside == tg_pc \in {"unset", "set"}
tp_outside == tp_pc \in {"awake", "suspended"}

\* The trigger's control calls one at a time, each against the poll.
NextThermalSerial ==
    \/ check_temp({40, 57})
    \/ (tp_outside /\ (thermal_trig_activate \/ thermal_trig_deactivate))
    \/ (tg_outside /\ (thermal_trig_early_suspend \/ thermal_trig_late_resume))

SpecThermalSerial == Init /\ [][NextThermalSerial]_vars

-----------------------------------------------------------------------------
(* Properties.                                                             *)

\* A step of asmp_work_fn, of the power-state thread, of set_enabled.
TickStep == t_pc' # t_pc
ActStep == t_pc = "sampled" /\ t_pc' = "acted"
EnStep == << en_pc, en_cpu >>' # << en_pc, en_cpu >>

\* The cpus whose online state a step changes.
Toggled == (cpu_online_mask \ cpu_online_mask') \cup (cpu_online_mask' \ cpu_online_mask)

\* C1: in every reachable state cpu 0 is online, so at least one cpu is;
\* no tick, suspend or disable path takes cpu 0 down, whatever min_cpus and
\* max_cpus were written to.
C1_Cpu0Online ==
    /\ 0 \in cpu_online_mask
    /\ Cardinality(cpu_online_mask) >= 1
    /\ cpu_online_mask \subseteq CPUS

\* The tick went for cpu_down with min_cpus = 0 when it had counted one
\* online cpu and only cpu 0 is online.
C1_Witness ==
    /\ t_pc = "acted" /\ t_branch = "down"
    /\ asmp_param.min_cpus = 0 /\ nr_cpu_online = 1
    /\ cpu_online_mask = {0}

\* C2: with cycle_up = N, a tick brings a cpu online exactly when it is the
\* N-th in a row of ticks that each had rq_avg >= load_limit_up and fewer
\* than max_cpus cpus online (run_up counts the earlier ticks of the row),
\* whatever ticks came before the row.
C2_Hysteresis ==
    [][ ActStep =>
          ( (t_branch' = "up" /\ cpu_online_mask' # cpu_online_mask)
            <=> ( /\ scale_up
                  /\ run_up + 1 >= asmp_param.cycle_up
                  /\ cpumask_next_zero(0, cpu_online_mask) < NR_CPUS ) ) ]_vars

\* C3: when asmp_early_suspend returns after taking its unplug loop, exactly
\* cpu 0 is online.
C3_SuspendSingle ==
    [][ (pm_pc = "s_ret" /\ pm_pc' = "suspended" /\ pm_scroff)
          => cpu_online_mask = {0} ]_vars

\* C4 as stated: a suspend directly followed by the resume, both with
\* scroff_single_core set and nothing else changing the online set in
\* between, leaves the online set the suspend found.
C4_RoundTrip ==
    [][ (pm_pc = "r_ret" /\ pm_pc' = "awake" /\ pm_snap # {})
          => cpu_online_mask = pm_snap ]_vars

\* C4 amended: such a suspend and resume leave every cpu online, whatever
\* set the suspend found.
C4_ResumeFull ==
    [][ (pm_pc = "r_ret" /\ pm_pc' = "awake" /\ pm_snap # {})
          => cpu_online_mask = CPUS ]_vars

\* A resume is about to return with every cpu online after a suspend that
\* found a cpu offline.
C4_Witness ==
    /\ pm_pc = "r_ret" /\ pm_snap # {} /\ pm_snap # CPUS
    /\ cpu_online_mask = CPUS

\* C5: when a disabling set_enabled is about to return, no asmp_work_fn is
\* running, none is pending (the running one's requeue included) and every
\* cpu is online, whatever the attributes are.
C5_DisableJoins ==
    (en_pc = "e_ret" /\ ~enabled)
        => /\ t_pc = "idle"
           /\ asmp_work = "idle"
           /\ cpu_online_mask = CPUS

\* A disable that began while asmp_work_fn was running is about to return.
C5_Witness ==
    /\ en_pc = "e_ret" /\ ~enabled /\ en_inflight
    /\ t_pc = "idle" /\ asmp_work = "idle" /\ cpu_online_mask = CPUS

\* C6: an enabling set_enabled on an already enabled controller, the second
\* of two enables in a row among them, changes nothing: with no tick
\* running, none of its steps changes enabled, the online set, cycle or the
\* work (no tick made pending, no timer set again).
C6_EnableNoop ==
    [][ (EnStep /\ (en_old \/ en_old') /\ en_ret = 0 /\ en_ret' = 0 /\ t_pc = "idle")
          => /\ enabled' = enabled
             /\ cpu_online_mask' = cpu_online_mask
             /\ cycle' = cycle
             /\ asmp_work' = asmp_work ]_vars

\* C7: a tick that brings a cpu online brings the lowest offline one; a tick
\* that takes a cpu offline takes a cpu above 0 that was online and whose
\* rate no other such cpu is below, the lowest of those with that rate.
C7_Selection ==
    [][ (ActStep /\ cpu_online_mask' # cpu_online_mask) =>
          IF t_branch' = "up"
          THEN /\ t_cpu' \notin cpu_online_mask
               /\ \A c \in CPUS \ cpu_online_mask : t_cpu' <= c
               /\ cpu_online_mask' = cpu_online_mask \cup {t_cpu'}
          ELSE /\ t_branch' = "down"
               /\ t_cpu' > 0 /\ t_cpu' \in cpu_online_mask
               /\ cpu_online_mask' = cpu_online_mask \ {t_cpu'}
               /\ \A c \in cpu_online_mask \ {0} :
                     \/ rate'[t_cpu'] < rate'[c]
                     \/ (rate'[t_cpu'] = rate'[c] /\ t_cpu' <= c) ]_vars

\* The tick took cpu 1 down when cpu 2 was online at the same rate.
C7_Witness ==
    /\ t_pc = "acted" /\ t_branch = "down" /\ t_cpu = 1
    /\ cpu_online_mask = CPUS \ {1}
    /\ rate[1] = rate[2]

\* The online count is within [min_cpus, max_cpus].
InRange ==
    /\ asmp_param.min_cpus <= Cardinality(cpu_online_mask)
    /\ Cardinality(cpu_online_mask) <= asmp_param.max_cpus

\* C8: a tick never takes the online count out of [min_cpus, max_cpus], and
\* whenever the controller is enabled and awake with the count outside the
\* range, the ticks that follow bring it back inside.
C8_Converges ==
    /\ [][ (TickStep /\ InRange) => InRange' ]_vars
    /\ ((enabled /\ pm_pc = "awake" /\ ~InRange) ~> InRange)

\* C9: asmp_work_fn changes the online state of at most one cpu, in its
\* decision step only, and when it took a branch cycle is 0 from then to the
\* end of the function.
C9_OneAction ==
    [][ TickStep =>
          /\ Cardinality(Toggled) <= 1
          /\ (~ActStep => Toggled = {})
          /\ (t_branch' # "none" => cycle' = 0)
          /\ (t_branch # "none" => cycle = 0) ]_vars

\* The scenario: min_cpus = 1, max_cpus = 4, load_limit_up = 25,
\* cycle_up = 1, one cpu counted online, rq_avg = 30: two cpus online and
\* cycle = 0.
C9_Witness ==
    /\ t_pc = "acted" /\ t_branch = "up" /\ t_cpu = 1
    /\ asmp_param.min_cpus = 1 /\ asmp_param.max_cpus = 4
    /\ asmp_param.load_limit_up = 25 /\ asmp_param.cycle_up = 1
    /\ nr_cpu_online = 1 /\ rq_avg = 30
    /\ cpu_online_mask = {0, 1} /\ cycle = 0

\* C10: a set_enabled whose text is rejected with -EINVAL has no side
\* effect: with no tick running, none of its steps changes the attributes,
\* enabled, whether a tick is pending, or the online set.
C10_MalformedNoEffect ==
    [][ (EnStep /\ t_pc = "idle" /\ (en_ret = 0 - EINVAL \/ en_ret' = 0 - EINVAL))
          => /\ asmp_param' = asmp_param
             /\ enabled' = enabled
             /\ work_pending(asmp_work') = work_pending(asmp_work)
             /\ cpu_online_mask' = cpu_online_mask ]_vars

C12_DeadBandFrame ==
    [][ /\ (t_pc = "idle" /\ t_pc' = "sampled" /\ ~(scale_up' \/ scale_down'))
             => cycle' = cycle
        /\ (ActStep /\ ~(scale_up \/ scale_down)) => cycle' = cycle ]_vars

\* C13: when asmp_work_fn goes for cpu_up or cpu_down and no cpu changes
\* state (no offline cpu to bring up, no cpu above 0 to take down), cycle is
\* not reset: it keeps the value it had, so the next qualifying tick tries
\* again.
C13_NoResetOnNoChange ==
    [][ (ActStep /\ t_branch' # "none" /\ cpu_online_mask' = cpu_online_mask)
          => (cycle' = cycle /\ cycle' # 0) ]_vars

\* C14: between asmp_work_fn's read of the online count and its cpu_up or
\* cpu_down no other thread changes the online set, so the count it acts on
\* is the count at the moment it acts.
C14_TickAtomic ==
    [][ /\ (t_pc = "sampled" /\ t_pc' = "sampled")
             => cpu_online_mask' = cpu_online_mask
        /\ (ActStep /\ t_branch' # "none")
             => num_online_cpus(cpu_online_mask) = nr_cpu_online ]_vars

\* C15: when asmp_late_resume has taken its plug loop every cpu is online
\* as it leaves the loop (before the tick it queues itself can run),
\* whatever the load and the bounds; when it does not take the loop none of
\* its steps changes the online set; and when it returns a tick is pending
\* (or already running) exactly if enabled is set.
C15_ResumePost ==
    [][ /\ (pm_pc = "r_check" /\ pm_pc' # pm_pc /\ pm_scroff)
             => cpu_online_mask = CPUS
        /\ (pm_pc = "r_ret" /\ pm_pc' = "awake")
             => (enabled <=> (work_pending(asmp_work) \/ t_pc # "idle"))
        /\ (pm_pc \in {"suspended", "r_check", "r_queue"} /\ pm_pc' # pm_pc
                /\ ~pm_scroff')
             => cpu_online_mask' = cpu_online_mask ]_vars

\* C16: whenever enabled is clear and neither set_enabled nor a handler of
\* the power-state thread is running, no tick is pending and none runs,
\* however the disable was interleaved with the handlers and the tick.
C16_EnabledGates ==
    (~enabled /\ en_outside /\ pm_outside)
        => (~work_pending(asmp_work) /\ t_pc = "idle")

\* C17: from the return of asmp_early_suspend to the next call of
\* asmp_late_resume asmp_work_fn takes no step, so it changes no cpu's
\* state, also when enabled is written in between.
C17_SuspendedNoTick ==
    [][ pm_pc = "suspended" => (t_pc' = t_pc /\ t_pc = "idle") ]_vars

\* C18: in every state, so after every check_temp whatever it read (far
\* above HIGH_TEMP, or nothing because the read failed), brightness and the
\* value last sent to the LED are within [LED_OFF, LED_FULL].
C18_Bounded ==
    /\ brightness \in LED_OFF .. LED_FULL
    /\ led \in LED_OFF .. LED_FULL

\* check_temp has read a temperature far above HIGH_TEMP and left brightness
\* and the LED at LED_FULL.
C18_Witness ==
    /\ c_pc = "resched" /\ ret = 0 /\ temp > 1000 * HIGH_TEMP
    /\ brightness = LED_FULL /\ led = LED_FULL

\* The brightness the ramp is to reach for a reading.
ramp_target(t) == Min(LED_FULL, interpolate(t))

\* C19: once brightness equals the interpolated target of the reading,
\* min(255, 255 * (temp - 52) / 10) or 0 up to 52, a check_temp with that
\* reading leaves brightness unchanged: the target is the fixed point the
\* repeated executions converge to.
C19_FixedPoint ==
    [][ (c_pc = "read" /\ c_pc' = "resched" /\ ret = 0
            /\ brightness = ramp_target(temp))
          => brightness' = brightness ]_vars

\* C20: once thermal_trig_deactivate has returned, or
\* thermal_trig_early_suspend has returned on the active trigger, and until
\* the next activate or late resume schedules it again, no check_temp is
\* pending and none runs.
C20_PollingStops ==
    th_stopped => (check_temp_work = "idle" /\ c_pc = "idle")

====
